---- MODULE Spec2Model ----
(***************************************************************************)
(* Model of src-tauri/src/lib.rs of brew-guide: the tray menu of a coffee  *)
(* inventory.  calculate_freshness classifies a bean, truncate_name and    *)
(* format_capacity format labels, update_tray_with_beans builds the menu   *)
(* document and installs it on the tray, on_menu_event dispatches clicks,  *)
(* set_tray_visible shows and hides the tray icon and the close handler of *)
(* the main window hides the window while the tray icon is visible.        *)
(*                                                                         *)
(* Strings are sequences of one-character strings, so that parsing,        *)
(* prefixing and prefix stripping are computed and not assumed.  A         *)
(* character outside ASCII is written "U+xxxx".                             *)
(***************************************************************************)
EXTENDS Integers, Sequences, FiniteSets, TLC

VARIABLES
    today,       \* chrono::Local::now().date_naive(), as <<year, month, day>>
    beans,       \* the Vec<CoffeeBean> argument of the current / last update_tray_menu call
    trayMenu,    \* the menu the "main-tray" tray icon shows (NoMenu when there is no tray)
    result,      \* how the last update_tray_menu call ended, "none" before the first
    doc,         \* the items update_tray_with_beans had added to menu_builder when it ended
    event,       \* what the last on_menu_event call did
    bean,        \* argument of calculate_freshness
    info,        \* BeanFreshnessInfo returned by calculate_freshness
    name,        \* argument `name` of truncate_name
    max_width,   \* argument `max_width` of truncate_name
    truncated,   \* String returned by truncate_name
    visible,     \* TrayState.visible, the flag behind Arc<Mutex<TrayState>>
    trayVisible, \* whether the "main-tray" tray icon is shown by the system
    window,      \* the "main" webview window: "shown", "hidden" or "closed"
    macos,       \* cfg!(target_os = "macos") of the build
    policy,      \* ActivationPolicy of the application (macOS), "Unset" elsewhere
    call,        \* the last set_tray_visible call: argument, tray found, result
    close,       \* what the last CloseRequested handler run did
    handler      \* the handler that ran last

shell == <<visible, trayVisible, window, macos, policy, call, close>>
vars == <<today, beans, trayMenu, result, doc, event, bean, info, name, max_width, truncated,
          visible, trayVisible, window, macos, policy, call, close, handler>>

(***************************************************************************)
(* Bounds of the model.                                                    *)
(***************************************************************************)
MaxBeans == 3        \* longest bean list given to a single update_tray_menu call
MaxCallBeans == 2    \* longest bean list given to a call of a sequence of calls
MaxNameLen == 3      \* longest name given to truncate_name on its own
MaxWidthArg == 4     \* largest max_width given to truncate_name on its own

(***************************************************************************)
(* Program constants.                                                      *)
(***************************************************************************)
DefaultStartDay == 7
DefaultEndDay == 30
NameWidth == 16
MaxI32 == 2147483647
MinI32 == -MaxI32 - 1

(***************************************************************************)
(* Option<T>: `val` is meaningful only when `some` holds.                  *)
(***************************************************************************)
Some(v) == [some |-> TRUE, val |-> v]
NoneInt == [some |-> FALSE, val |-> 0]
NoneStr == [some |-> FALSE, val |-> <<>>]
NoneBool == [some |-> FALSE, val |-> FALSE]
UnwrapOr(o, d) == IF o.some THEN o.val ELSE d

(***************************************************************************)
(* Characters.                                                             *)
(***************************************************************************)
Digits == {"0", "1", "2", "3", "4", "5", "6", "7", "8", "9"}
DigitVal(c) ==
    CASE c = "0" -> 0 [] c = "1" -> 1 [] c = "2" -> 2 [] c = "3" -> 3
      [] c = "4" -> 4 [] c = "5" -> 5 [] c = "6" -> 6 [] c = "7" -> 7
      [] c = "8" -> 8 [] c = "9" -> 9
Ellipsis == "U+2026"
\* char::is_ascii: of the characters the model uses, the ones written U+xxxx are not
NonAscii == {"U+2026", "U+4E2D", "U+8C46"}
is_ascii(c) == c \notin NonAscii

\* i32 subtraction a - b of two i32: whether it overflows, and the value the code gets
\* where it wraps (overflow-checks off).  Written so that no intermediate value leaves
\* the i32 range, which is also the range of the model checker's integers.
SubOverflows32(a, b) ==
    IF b < 0 THEN a > MaxI32 + b
    ELSE a < MinI32 + b
Sub32(a, b) ==
    IF ~SubOverflows32(a, b) THEN a - b
    ELSE IF b < 0 THEN ((a - MaxI32) + (MinI32 - b)) - 1
    ELSE ((a - MinI32) + (MaxI32 - b)) + 1

(***************************************************************************)
(* truncate_name (lib.rs 154-176)                                          *)
(***************************************************************************)
\* lib.rs 160: a Chinese character takes 2 columns, an ASCII one 1
char_width(c) == IF is_ascii(c) THEN 1 ELSE 2

\* the display width of a string by the width function of truncate_name
RECURSIVE DisplayWidth(_)
DisplayWidth(s) ==
    IF s = <<>> THEN 0 ELSE char_width(Head(s)) + DisplayWidth(Tail(s))

\* lib.rs 158-167: the for loop from character i on; yields the locals width and result
RECURSIVE TruncateLoop(_, _, _, _, _)
TruncateLoop(nm, i, maxw, width, res) ==
    IF i > Len(nm) THEN [width |-> width, result |-> res]
    ELSE IF width + char_width(nm[i]) > maxw
         THEN [width |-> width, result |-> Append(res, Ellipsis)]
         ELSE TruncateLoop(nm, i + 1, maxw, width + char_width(nm[i]), Append(res, nm[i]))

\* lib.rs 170-173: the while loop that pads with spaces
RECURSIVE PadLoop(_, _, _)
PadLoop(res, width, maxw) ==
    IF width < maxw THEN PadLoop(Append(res, " "), width + 1, maxw) ELSE res

truncate_name(nm, maxw) ==
    LET l == TruncateLoop(nm, 1, maxw, 0, <<>>)
    IN  PadLoop(l.result, l.width, maxw)

(***************************************************************************)
(* Decimal numbers: num / den with den a power of ten, which is exact for  *)
(* the decimal strings the model parses (f64 rounding is not modelled).    *)
(***************************************************************************)
Dec(n, d) == [ok |-> TRUE, num |-> n, den |-> d]
DecErr == [ok |-> FALSE, num |-> 0, den |-> 1]
DecGtZero(x) == x.num > 0
DecAdd(x, y) ==
    IF x.den >= y.den
    THEN Dec(x.num + y.num * (x.den \div y.den), x.den)
    ELSE Dec(x.num * (y.den \div x.den) + y.num, y.den)

\* digits of s from position i on: <<value, number of digits, next position>>
RECURSIVE ScanDigits(_, _, _, _)
ScanDigits(s, i, acc, n) ==
    IF i <= Len(s) /\ s[i] \in Digits
    THEN ScanDigits(s, i + 1, acc * 10 + DigitVal(s[i]), n + 1)
    ELSE <<acc, n, i>>

RECURSIVE Pow10(_)
Pow10(n) == IF n = 0 THEN 1 ELSE 10 * Pow10(n - 1)

\* str::parse::<f64> on strings of signs, digits, '.', and other characters:
\* [sign] digits [. digits] | [sign] . digits ; anything else is an Err.
\* (Exponents and inf/nan spellings are not among the strings the model feeds.)
ParseF64(s) ==
    LET signed == s # <<>> /\ s[1] \in {"+", "-"}
        start  == IF signed THEN 2 ELSE 1
        ip     == ScanDigits(s, start, 0, 0)
        hasDot == ip[3] <= Len(s) /\ s[ip[3]] = "."
        fp     == IF hasDot THEN ScanDigits(s, ip[3] + 1, 0, 0) ELSE <<0, 0, ip[3]>>
        mag    == ip[1] * Pow10(fp[2]) + fp[1]
    IN  IF fp[3] = Len(s) + 1 /\ ip[2] + fp[2] > 0
        THEN Dec(IF signed /\ s[1] = "-" THEN -mag ELSE mag, Pow10(fp[2]))
        ELSE DecErr

(***************************************************************************)
(* format_capacity (lib.rs 179-185)                                        *)
(***************************************************************************)
\* the label text as <<unit, whole part, hundredths>>: "{:.2}kg" of grams / 1000
\* from 1000 g on, else "{}g" of grams truncated to an integer
format_capacity(grams) ==
    IF grams.num >= 1000 * grams.den
    THEN LET h == (grams.num + 5 * grams.den) \div (10 * grams.den)
         IN  [unit |-> "kg", whole |-> h \div 100, frac |-> h % 100]
    ELSE [unit |-> "g",
          whole |-> IF grams.num >= 0 THEN grams.num \div grams.den
                    ELSE -((-grams.num) \div grams.den),
          frac |-> 0]

(***************************************************************************)
(* chrono::NaiveDate::parse_from_str(s, "%Y-%m-%d") and date arithmetic    *)
(***************************************************************************)
\* at most maxd digits of s from position i on: <<value, number of digits, next position>>
RECURSIVE ScanNumber(_, _, _, _, _)
ScanNumber(s, i, maxd, acc, n) ==
    IF n < maxd /\ i <= Len(s) /\ s[i] \in Digits
    THEN ScanNumber(s, i + 1, maxd, acc * 10 + DigitVal(s[i]), n + 1)
    ELSE <<acc, n, i>>

IsLeap(y) == (y % 4 = 0 /\ y % 100 # 0) \/ y % 400 = 0
DaysInMonth(y, m) ==
    CASE m \in {1, 3, 5, 7, 8, 10, 12} -> 31
      [] m \in {4, 6, 9, 11} -> 30
      [] OTHER -> IF IsLeap(y) THEN 29 ELSE 28

RECURSIVE DaysBeforeMonth(_, _)
DaysBeforeMonth(y, m) ==
    IF m = 1 THEN 0 ELSE DaysBeforeMonth(y, m - 1) + DaysInMonth(y, m - 1)

\* the day number of a date of the proleptic Gregorian calendar (1 = 0001-01-01)
DayNumber(d) ==
    LET y == d[1] - 1
    IN  365 * y + (y \div 4) - (y \div 100) + (y \div 400) + DaysBeforeMonth(d[1], d[2]) + d[3]

\* %Y takes 1 to 4 digits, %m and %d 1 to 2, the '-' are literal, nothing may
\* follow, and the fields must name a day of the calendar.
\* (Signed years and leading blanks are not among the strings the model feeds.)
ParseDate(s) ==
    LET y  == ScanNumber(s, 1, 4, 0, 0)
        m  == ScanNumber(s, y[3] + 1, 2, 0, 0)
        d  == ScanNumber(s, m[3] + 1, 2, 0, 0)
        ok == /\ y[2] >= 1 /\ y[3] <= Len(s) /\ s[y[3]] = "-"
              /\ m[2] >= 1 /\ m[3] <= Len(s) /\ s[m[3]] = "-"
              /\ d[2] >= 1 /\ d[3] = Len(s) + 1
              /\ m[1] \in 1..12
              /\ d[1] >= 1 /\ d[1] <= DaysInMonth(y[1], m[1])
    IN  IF ok THEN [ok |-> TRUE, date |-> <<y[1], m[1], d[1]>>]
        ELSE [ok |-> FALSE, date |-> <<0, 0, 0>>]

(***************************************************************************)
(* calculate_freshness (lib.rs 98-151)                                     *)
(***************************************************************************)
\* lib.rs 101-109
days_since_roast(b, now) ==
    IF b.roast_date.some
    THEN LET p == ParseDate(b.roast_date.val)
         IN  IF p.ok THEN DayNumber(now) - DayNumber(p.date) ELSE 0
    ELSE 0

\* a likely slip: the flags are tested in the other order
FreshnessStateFrozenFirst(b, days, start_day, end_day) ==
    IF UnwrapOr(b.is_frozen, FALSE) THEN "Frozen"
    ELSE IF UnwrapOr(b.is_in_transit, FALSE) THEN "InTransit"
    ELSE IF ~b.roast_date.some THEN "Unknown"
    ELSE IF days < start_day THEN "Resting"
    ELSE IF days <= end_day THEN "Optimal"
    ELSE "Decline"

\* a likely slip: the window's end is exclusive
FreshnessStateEndExclusive(b, days, start_day, end_day) ==
    IF UnwrapOr(b.is_in_transit, FALSE) THEN "InTransit"
    ELSE IF UnwrapOr(b.is_frozen, FALSE) THEN "Frozen"
    ELSE IF ~b.roast_date.some THEN "Unknown"
    ELSE IF days < start_day THEN "Resting"
    ELSE IF days < end_day THEN "Optimal"
    ELSE "Decline"

\* lib.rs 113-130
FreshnessState(b, days, start_day, end_day) ==
    IF UnwrapOr(b.is_in_transit, FALSE) THEN "InTransit"
    ELSE IF UnwrapOr(b.is_frozen, FALSE) THEN "Frozen"
    ELSE IF ~b.roast_date.some THEN "Unknown"
    ELSE IF days < start_day THEN "Resting"
    ELSE IF days <= end_day THEN "Optimal"
    ELSE "Decline"

\* lib.rs 133-141: the percentage as the fraction num / den
ProgressPercent(state, days, start_day, end_day) ==
    LET optimal_duration == Sub32(end_day, start_day)
        days_in_optimal  == Sub32(days, start_day)
    IN  IF optimal_duration > 0 /\ state = "Optimal"
        THEN IF days_in_optimal <= 0 THEN [num |-> 0, den |-> 1]
             ELSE IF days_in_optimal >= optimal_duration THEN [num |-> 100, den |-> 1]
             ELSE [num |-> 100 * days_in_optimal, den |-> optimal_duration]
        ELSE IF days > end_day THEN [num |-> 100, den |-> 1]
        ELSE [num |-> 0, den |-> 1]

calculate_freshness(b, now) ==
    LET days      == days_since_roast(b, now)
        start_day == UnwrapOr(b.start_day, DefaultStartDay)
        end_day   == UnwrapOr(b.end_day, DefaultEndDay)
        state     == FreshnessState(b, days, start_day, end_day)
    IN  [bean |-> b,
         days_since_roast |-> days,
         start_day |-> start_day,
         end_day |-> end_day,
         freshness_state |-> state,
         progress_percent |-> ProgressPercent(state, days, start_day, end_day)]

\* lib.rs 133-134: the i32 subtractions of calculate_freshness that overflow
\* (a panic when the build has overflow checks, a wrapped value otherwise)
FreshnessOverflows(b, now) ==
    LET days      == days_since_roast(b, now)
        start_day == UnwrapOr(b.start_day, DefaultStartDay)
        end_day   == UnwrapOr(b.end_day, DefaultEndDay)
    IN  SubOverflows32(end_day, start_day) \/ SubOverflows32(days, start_day)

(***************************************************************************)
(* Menu documents.  A menu is the sequence of the entries of a             *)
(* MenuBuilder; every entry has the same fields, so that menus compare.    *)
(***************************************************************************)
\* a label: the format string's tag with its arguments
NoCap == [unit |-> "", whole |-> 0, frac |-> 0]
Label(fmt, num, text) == [fmt |-> fmt, num |-> num, text |-> text, cap |-> NoCap]
CapLabel(fmt, cap) == [fmt |-> fmt, num |-> 0, text |-> <<>>, cap |-> cap]

MenuItem(id, label, enabled) ==
    [kind |-> "item", id |-> id, label |-> label, enabled |-> enabled, items |-> <<>>]
Separator ==
    [kind |-> "separator", id |-> <<>>, label |-> Label("", 0, <<>>), enabled |-> FALSE,
     items |-> <<>>]
Submenu(label, items) ==
    [kind |-> "submenu", id |-> <<>>, label |-> label, enabled |-> TRUE, items |-> items]

\* the identifiers of lib.rs as strings of characters
StatCountId == <<"s", "t", "a", "t", "_", "c", "o", "u", "n", "t">>
StatCapacityId == <<"s", "t", "a", "t", "_", "c", "a", "p", "a", "c", "i", "t", "y">>
EmptyId == <<"e", "m", "p", "t", "y">>
LoadingId == <<"l", "o", "a", "d", "i", "n", "g">>
OpenAppId == <<"o", "p", "e", "n", "_", "a", "p", "p">>
QuitId == <<"q", "u", "i", "t">>
BeanPrefix == <<"b", "e", "a", "n", ":">>

\* lib.rs 339-342
OpenAppItem == MenuItem(OpenAppId, Label("open_app", 0, <<>>), TRUE)
QuitItem == MenuItem(QuitId, Label("quit", 0, <<>>), TRUE)
\* lib.rs 332-334
EmptyItem == MenuItem(EmptyId, Label("empty", 0, <<>>), FALSE)

\* lib.rs 421-443: the menu the tray is created with
LoadingMenu ==
    << MenuItem(StatCountId, Label("count:-", 0, <<>>), FALSE),
       MenuItem(StatCapacityId, Label("capacity:-", 0, <<>>), FALSE),
       Separator,
       MenuItem(LoadingId, Label("loading", 0, <<>>), FALSE),
       Separator, OpenAppItem, QuitItem >>

\* what trayMenu holds where no "main-tray" exists (no tray is built outside cfg(desktop))
NoMenu == << [kind |-> "no tray", id |-> <<>>, label |-> Label("", 0, <<>>),
              enabled |-> FALSE, items |-> <<>>] >>

(***************************************************************************)
(* update_tray_with_beans (lib.rs 187-357)                                 *)
(***************************************************************************)
\* a likely slip: a bean with no stock left is kept (>= for >)
IsActiveOrZero(b) ==
    IF b.remaining.some
    THEN LET p == ParseF64(b.remaining.val)
             amount == IF p.ok THEN p ELSE Dec(0, 1)
         IN  amount.num >= 0
    ELSE FALSE

\* lib.rs 191-198: the filter of active_beans
IsActive(b) ==
    IF b.remaining.some
    THEN LET p == ParseF64(b.remaining.val)
             amount == IF p.ok THEN p ELSE Dec(0, 1)
         IN  DecGtZero(amount)
    ELSE FALSE

RECURSIVE MapFreshness(_, _)
MapFreshness(bs, now) ==
    IF bs = <<>> THEN <<>>
    ELSE <<calculate_freshness(Head(bs), now)>> \o MapFreshness(Tail(bs), now)

\* lib.rs 189-200
ActiveBeans(bs, now) == MapFreshness(SelectSeq(bs, IsActive), now)

\* lib.rs 203-222: the members of one state, in the order of active_beans
OfState(active, state) == SelectSeq(active, LAMBDA i : i.freshness_state = state)

\* the keys of the comparators, as the i32 the code computes
OptimalKey(i) == Sub32(i.end_day, i.days_since_roast)
RestingKey(i) == Sub32(i.start_day, i.days_since_roast)
DeclineKey(i) == i.days_since_roast

\* a likely slip: the comparator is reversed (b.cmp(a))
RECURSIVE InsertByKeyDescending(_, _)
InsertByKeyDescending(x, s) ==
    IF s = <<>> THEN <<x>>
    ELSE IF x.key > Head(s).key THEN <<x>> \o s
    ELSE <<Head(s)>> \o InsertByKeyDescending(x, Tail(s))

\* slice::sort_by is a stable sort: x goes behind the entries whose key is not larger
RECURSIVE InsertByKey(_, _)
InsertByKey(x, s) ==
    IF s = <<>> THEN <<x>>
    ELSE IF x.key < Head(s).key THEN <<x>> \o s
    ELSE <<Head(s)>> \o InsertByKey(x, Tail(s))

RECURSIVE SortKeyed(_)
SortKeyed(s) ==
    IF s = <<>> THEN <<>>
    ELSE InsertByKey(s[Len(s)], SortKeyed(SubSeq(s, 1, Len(s) - 1)))

RECURSIVE Unkey(_)
Unkey(s) == IF s = <<>> THEN <<>> ELSE <<Head(s).info>> \o Unkey(Tail(s))

\* lib.rs 225-229
SortOptimal(rows) ==
    Unkey(SortKeyed([k \in 1..Len(rows) |-> [key |-> OptimalKey(rows[k]), info |-> rows[k]]]))
\* lib.rs 232-236
SortResting(rows) ==
    Unkey(SortKeyed([k \in 1..Len(rows) |-> [key |-> RestingKey(rows[k]), info |-> rows[k]]]))
\* lib.rs 239
SortDecline(rows) ==
    Unkey(SortKeyed([k \in 1..Len(rows) |-> [key |-> DeclineKey(rows[k]), info |-> rows[k]]]))

\* a likely slip: the first two blocks are pasted in the other order
GroupOrderOptimalFirst == <<"Optimal", "Frozen", "Resting", "Decline", "InTransit">>

\* lib.rs 266-328: the groups in the order the code emits them
GroupOrder == <<"Frozen", "Optimal", "Resting", "Decline", "InTransit">>

\* lib.rs 203-239: the sorted members of a group
GroupRows(active, state) ==
    CASE state = "Optimal" -> SortOptimal(OfState(active, state))
      [] state = "Resting" -> SortResting(OfState(active, state))
      [] state = "Decline" -> SortDecline(OfState(active, state))
      [] OTHER -> OfState(active, state)

\* format!("bean:{}", info.bean.id)
BeanItemId(id) == BeanPrefix \o id

\* lib.rs 272-273, 283-287, 297-300, 310-313, 323-324: the row of one bean
BeanRow(state, i) ==
    LET nm == truncate_name(i.bean.name, NameWidth)
        label ==
            CASE state = "Optimal" -> Label("{:>2} days", OptimalKey(i), nm)
              [] state = "Resting" -> Label("{:>2} days", RestingKey(i), nm)
              [] state = "Decline" -> Label("+{} days", Sub32(i.days_since_roast, i.end_day), nm)
              [] OTHER -> Label("{}", 0, nm)
    IN  MenuItem(BeanItemId(i.bean.id), label, TRUE)

\* whether computing the label of a row overflows an i32 (lib.rs 283, 297, 310)
RowOverflows(state, i) ==
    CASE state = "Optimal" -> SubOverflows32(i.end_day, i.days_since_roast)
      [] state = "Resting" -> SubOverflows32(i.start_day, i.days_since_roast)
      [] state = "Decline" -> SubOverflows32(i.days_since_roast, i.end_day)
      [] OTHER -> FALSE

\* lib.rs 270, 281, 295, 308, 321: the submenu of a group, its label carrying the count
GroupSubmenu(state, rows) ==
    Submenu(Label(state, Len(rows), <<>>), [k \in 1..Len(rows) |-> BeanRow(state, rows[k])])

\* lib.rs 243-246
RECURSIVE TotalCapacity(_)
TotalCapacity(active) ==
    IF active = <<>> THEN Dec(0, 1)
    ELSE LET r == Head(active).bean.remaining
             p == IF r.some THEN ParseF64(r.val) ELSE DecErr
         IN  IF p.ok THEN DecAdd(p, TotalCapacity(Tail(active)))
             ELSE TotalCapacity(Tail(active))

\* lib.rs 252-263
Header(active) ==
    << MenuItem(StatCountId, Label("count:{}", Len(active), <<>>), FALSE),
       MenuItem(StatCapacityId, CapLabel("capacity:{}", format_capacity(TotalCapacity(active))),
                FALSE),
       Separator >>

\* lib.rs 269-328: the submenus of the first n groups of GroupOrder, the empty ones left out
RECURSIVE Submenus(_, _)
Submenus(active, n) ==
    IF n = 0 THEN <<>>
    ELSE LET rows == GroupRows(active, GroupOrder[n])
         IN  Submenus(active, n - 1)
               \o (IF rows # <<>> THEN <<GroupSubmenu(GroupOrder[n], rows)>> ELSE <<>>)

\* lib.rs 331-336
Placeholder(active) == IF active = <<>> THEN <<EmptyItem>> ELSE <<>>

\* lib.rs 344-347
Footer == <<Separator, OpenAppItem, QuitItem>>

\* lib.rs 248-349: the menu handed to set_menu
BuildMenu(bs, now) ==
    LET active == ActiveBeans(bs, now)
    IN  Header(active) \o Submenus(active, Len(GroupOrder)) \o Placeholder(active) \o Footer

\* the fallible widget calls of one run, in order, each with the entries menu_builder
\* holds when the call is made and whether the label computed just before it overflows
Step(builder, overflow) == [builder |-> builder, overflow |-> overflow]

\* lib.rs 269-328: the item and submenu builds of the first n groups
RECURSIVE GroupSteps(_, _)
GroupSteps(active, n) ==
    IF n = 0 THEN <<>>
    ELSE LET rows   == GroupRows(active, GroupOrder[n])
             before == Header(active) \o Submenus(active, n - 1)
         IN  GroupSteps(active, n - 1)
               \o (IF rows # <<>>
                   THEN [k \in 1..(Len(rows) + 1) |->
                           Step(before, k <= Len(rows) /\ RowOverflows(GroupOrder[n], rows[k]))]
                   ELSE <<>>)

\* lib.rs 252-354: count_item, capacity_item, the groups, the placeholder, open_app,
\* quit, menu_builder.build() and, when the tray exists, tray.set_menu
Steps(bs, now, hasTray) ==
    LET active == ActiveBeans(bs, now)
        body   == Header(active) \o Submenus(active, Len(GroupOrder))
        filled == body \o Placeholder(active)
        full   == filled \o Footer
    IN  <<Step(<<>>, FALSE), Step(<<>>, FALSE)>>
          \o GroupSteps(active, Len(GroupOrder))
          \o (IF active = <<>> THEN <<Step(body, FALSE)>> ELSE <<>>)
          \o <<Step(filled, FALSE), Step(filled, FALSE), Step(full, FALSE)>>
          \o (IF hasTray THEN <<Step(full, FALSE)>> ELSE <<>>)

\* lib.rs 133-134, 225-236: an i32 subtraction overflows before the first widget call,
\* in calculate_freshness or in a comparator (a comparator runs from two members on)
EarlyOverflow(bs, now) ==
    LET active  == ActiveBeans(bs, now)
        optimal == OfState(active, "Optimal")
        resting == OfState(active, "Resting")
    IN  \/ \E k \in 1..Len(active) : FreshnessOverflows(active[k].bean, now)
        \/ Len(optimal) >= 2
             /\ \E k \in 1..Len(optimal) : RowOverflows("Optimal", optimal[k])
        \/ Len(resting) >= 2
             /\ \E k \in 1..Len(resting) : RowOverflows("Resting", resting[k])

\* the call at which a build with overflow checks panics: 0 is before the first,
\* Len(steps) + 1 is never
PanicAt(steps, early, checks) ==
    IF ~checks THEN Len(steps) + 1
    ELSE IF early THEN 0
    ELSE IF \E k \in 1..Len(steps) : steps[k].overflow
         THEN CHOOSE k \in 1..Len(steps) :
                 steps[k].overflow /\ \A j \in 1..(k - 1) : ~steps[j].overflow
         ELSE Len(steps) + 1

\* How a run with the widget calls `steps` ends when call failAt returns an Err (0: none
\* does) in a build with or without overflow checks: "ok", "build_err" (lib.rs 254-349,
\* the ? operators), "set_menu_err" (lib.rs 353) or "panic"; and the entries
\* menu_builder held then.  `early` is EarlyOverflow, `hasTray` whether the last call of
\* steps is set_menu.
Outcome(steps, early, hasTray, failAt, checks) ==
    LET panicAt == PanicAt(steps, early, checks)
    IN  IF panicAt = 0 THEN [result |-> "panic", doc |-> <<>>]
        ELSE IF failAt # 0 /\ failAt < panicAt
             THEN [result |-> IF hasTray /\ failAt = Len(steps)
                              THEN "set_menu_err" ELSE "build_err",
                   doc |-> steps[failAt].builder]
        ELSE IF panicAt <= Len(steps)
             THEN [result |-> "panic", doc |-> steps[panicAt].builder]
        ELSE [result |-> "ok", doc |-> steps[Len(steps)].builder]

\* the ways a run can end: every widget call failing or none, with and without
\* overflow checks
Outcomes(steps, early, hasTray) ==
    {Outcome(steps, early, hasTray, failAt, checks) :
        failAt \in 0..Len(steps), checks \in BOOLEAN}

\* a likely slip: the tray's menu is filled as the entries are built
MenusAfterEager(old, o) ==
    IF old = NoMenu THEN {old} ELSE {o.doc}

\* lib.rs 349-354: the menus the tray can show after a run that ended as o: the new one
\* once set_menu returned Ok, the old one after every earlier exit; what the widget
\* shows after set_menu returned an Err is the widget's matter, either of the two
MenusAfter(old, o) ==
    IF old = NoMenu THEN {old}
    ELSE CASE o.result = "ok" -> {o.doc}
           [] o.result = "set_menu_err" -> {old, o.doc}
           [] OTHER -> {old}

(***************************************************************************)
(* on_menu_event (lib.rs 465-491)                                          *)
(***************************************************************************)
starts_with(s, prefix) ==
    Len(s) >= Len(prefix) /\ SubSeq(s, 1, Len(prefix)) = prefix

\* a likely slip: every leading "bean:" is removed (trim_start_matches)
RECURSIVE strip_all_prefixes(_, _)
strip_all_prefixes(s, prefix) ==
    IF starts_with(s, prefix)
    THEN strip_all_prefixes(SubSeq(s, Len(prefix) + 1, Len(s)), prefix)
    ELSE s

\* str::strip_prefix(..).unwrap_or("")
strip_prefix(s, prefix) ==
    IF starts_with(s, prefix) THEN SubSeq(s, Len(prefix) + 1, Len(s)) ELSE <<>>

NoEvent == [id |-> <<>>, handled |-> "none", show |-> FALSE, emitted |-> NoneStr]

\* what the handler does with the identifier of the clicked entry
Dispatch(id) ==
    IF id = OpenAppId
    THEN [id |-> id, handled |-> "open_app", show |-> TRUE, emitted |-> NoneStr]
    ELSE IF id = QuitId
    THEN [id |-> id, handled |-> "quit", show |-> FALSE, emitted |-> NoneStr]
    ELSE IF starts_with(id, BeanPrefix)
    THEN [id |-> id, handled |-> "bean", show |-> TRUE,
          emitted |-> Some(strip_prefix(id, BeanPrefix))]
    ELSE [id |-> id, handled |-> "ignored", show |-> FALSE, emitted |-> NoneStr]

\* the identifiers of the entries of a menu that can be clicked
RECURSIVE ClickableIds(_)
ClickableIds(menu) ==
    IF menu = <<>> THEN {}
    ELSE LET e == Head(menu)
         IN  (IF e.kind = "item" /\ e.enabled THEN {e.id} ELSE {})
               \cup (IF e.kind = "submenu" THEN ClickableIds(e.items) ELSE {})
               \cup ClickableIds(Tail(menu))

(***************************************************************************)
(* TrayState, set_tray_visible (lib.rs 14-22, 68-96) and the CloseRequested *)
(* handler of the main window (lib.rs 386-415)                             *)
(***************************************************************************)
\* TrayState::default()
DefaultVisible == TRUE

NoCall == [visible |-> FALSE, found |-> FALSE, result |-> "none"]
NoClose == [tray_visible |-> FALSE, prevented |-> FALSE, hide |-> FALSE, ran |-> FALSE]

\* lib.rs 72-73, 95: Err only when the tray was found and tray.set_visible returned Err
SetVisibleResult(found, setOk) ==
    IF found /\ ~setOk THEN "err" ELSE "ok"

\* lib.rs 73: the tray icon after tray.set_visible(arg); a call that returned Err did not
\* change the icon
WidgetAfter(shown, found, setOk, arg) ==
    IF found /\ setOk THEN arg ELSE shown

\* a likely slip: the flag is stored before the result of set_visible is looked at
FlagAfterEager(flag, found, setOk, managed, lockOk, arg) ==
    IF found /\ managed /\ lockOk THEN arg ELSE flag

\* lib.rs 72-80: s.visible = visible, reached when the tray was found, set_visible
\* returned Ok, the state is managed and its lock is not poisoned
FlagAfter(flag, found, setOk, managed, lockOk, arg) ==
    IF found /\ setOk /\ managed /\ lockOk THEN arg ELSE flag

\* lib.rs 83-92 (macOS only): Accessory with the tray icon shown, Regular without
PolicyAfter(pol, isMac, found, setOk, arg) ==
    IF isMac /\ found /\ setOk
    THEN (IF arg THEN "Accessory" ELSE "Regular")
    ELSE pol

\* lib.rs 394-398: state.lock().map(|s| s.visible).unwrap_or(false), false without state
ReadFlag(flag, managed, lockOk) ==
    IF managed THEN (IF lockOk THEN flag ELSE FALSE) ELSE FALSE

\* lib.rs 400-410: with tray_visible the close is prevented and the window hidden,
\* otherwise nothing is done and the close goes on
CloseOutcome(tray_visible) ==
    [tray_visible |-> tray_visible, prevented |-> tray_visible, hide |-> tray_visible,
     ran |-> TRUE]

\* the main window after the handler: hidden by hide(), closed when the close went on
WindowAfterClose(o) ==
    IF o.prevented THEN (IF o.hide THEN "hidden" ELSE "shown") ELSE "closed"

\* lib.rs 372: the state is managed in setup, before any handler can run
StateManaged == TRUE

\* the lock is held only for one read or one write of the flag (lib.rs 77-79, 395), so
\* no thread can panic while holding it and lock() never returns a PoisonError
LockOk == TRUE

\* the application runs until "quit" (app.exit(0), lib.rs 474) or until its main window
\* is closed
Running == event.handled # "quit" /\ window # "closed"

(***************************************************************************)
(* Inputs.                                                                 *)
(***************************************************************************)
DigitChar(n) == <<"0", "1", "2", "3", "4", "5", "6", "7", "8", "9">>[n + 1]
TwoDigits(n) == <<DigitChar(n \div 10), DigitChar(n % 10)>>
\* a date as the frontend writes it, YYYY-MM-DD
DateStr(y, m, d) ==
    TwoDigits(y \div 100) \o TwoDigits(y % 100) \o <<"-">> \o TwoDigits(m) \o <<"-">> \o TwoDigits(d)

Todays == {<<2024, 3, 1>>, <<2024, 3, 2>>}
\* the day of the runs whose input is a whole list of beans
ListToday == <<2024, 3, 1>>

CoffeeBean(id, nm, remaining, roast_date, start_day, end_day, is_frozen, is_in_transit) ==
    [id |-> id, name |-> nm, remaining |-> remaining, capacity |-> NoneStr,
     roast_date |-> roast_date, start_day |-> start_day, end_day |-> end_day,
     is_frozen |-> is_frozen, is_in_transit |-> is_in_transit]

\* roast dates: absent, well formed (one of them unpadded, one in the future of every
\* today of the model) and malformed (no date, month 13, 29 February 2023, trailing text)
RoastDates ==
    { NoneStr,
      Some(DateStr(2024, 3, 1)), Some(DateStr(2024, 2, 28)), Some(DateStr(2024, 2, 23)),
      Some(DateStr(2024, 1, 31)), Some(DateStr(2024, 1, 30)), Some(DateStr(2024, 3, 3)),
      Some(<<"2", "0", "2", "4", "-", "3", "-", "1">>),
      Some(<<"x">>), Some(<<>>), Some(DateStr(2024, 13, 1)), Some(DateStr(2023, 2, 29)),
      Some(DateStr(2024, 2, 23) \o <<"x">>) }
StartDays == {NoneInt, Some(0), Some(2), Some(31), Some(-5)}
EndDays == {NoneInt, Some(2), Some(7), Some(MaxI32)}
Flags == {NoneBool, Some(FALSE), Some(TRUE)}

\* the beans calculate_freshness is applied to on its own
FreshnessBeans ==
    { CoffeeBean(<<"1">>, <<"a">>, Some(<<"1">>), rd, sd, ed, fr, tr) :
        rd \in RoastDates, sd \in StartDays, ed \in EndDays, fr \in Flags, tr \in Flags }

\* the names truncate_name is applied to on its own
RECURSIVE SeqsUpTo(_, _)
SeqsUpTo(S, n) ==
    IF n = 0 THEN {<<>>}
    ELSE LET shorter == SeqsUpTo(S, n - 1)
         IN  shorter \cup {Append(s, x) : s \in {q \in shorter : Len(q) = n - 1}, x \in S}
NameChars == {"a", "U+4E2D"}
Names == SeqsUpTo(NameChars, MaxNameLen)

LongName == [k \in 1..17 |-> "b"]
WideName == [k \in 1..9 |-> "U+8C46"]

\* the beans of the inventory: one of each state (the one in transit is frozen too and
\* far past its window, the frozen one has no roast date), one with no roast date and
\* no flag, and four with nothing left: remaining absent, zero, unparsable, negative.
\* Their ids are unique; some are the empty string or spell a fixed identifier.
Catalog ==
    { CoffeeBean(<<"q", "u", "i", "t">>, LongName, Some(<<"2", "5", "0", ".", "5">>),
                 Some(DateStr(2024, 2, 20)), NoneInt, Some(15), NoneBool, NoneBool),
      CoffeeBean(<<"o", "p", "e", "n", "_", "a", "p", "p">>, WideName, Some(<<"9", "0", "0">>),
                 Some(DateStr(2024, 2, 28)), NoneInt, NoneInt, Some(FALSE), Some(FALSE)),
      CoffeeBean(BeanPrefix \o <<"1">>, <<"d">>, Some(<<"+", "3", "0">>),
                 Some(DateStr(2024, 1, 1)), NoneInt, NoneInt, NoneBool, NoneBool),
      CoffeeBean(<<>>, <<>>, Some(<<".", "5">>),
                 NoneStr, NoneInt, NoneInt, Some(TRUE), Some(FALSE)),
      CoffeeBean(<<"1">>, <<"U+4E2D", "a">>, Some(<<"7", ".">>),
                 Some(DateStr(2024, 1, 1)), NoneInt, NoneInt, Some(TRUE), Some(TRUE)),
      CoffeeBean(<<"u">>, <<"u">>, Some(<<"5", "0">>),
                 NoneStr, NoneInt, NoneInt, NoneBool, NoneBool),
      CoffeeBean(<<"z", "1">>, <<"z">>, NoneStr,
                 Some(DateStr(2024, 2, 20)), NoneInt, NoneInt, NoneBool, NoneBool),
      CoffeeBean(<<"z", "2">>, <<"z">>, Some(<<"0", ".", "0">>),
                 Some(DateStr(2024, 2, 20)), NoneInt, NoneInt, Some(TRUE), NoneBool),
      CoffeeBean(<<"z", "3">>, <<"z">>, Some(<<"x">>),
                 Some(DateStr(2024, 2, 20)), NoneInt, NoneInt, NoneBool, Some(TRUE)),
      CoffeeBean(<<"z", "4">>, <<"z">>, Some(<<"-", "5">>),
                 Some(DateStr(2024, 1, 1)), NoneInt, NoneInt, NoneBool, NoneBool) }

BeanLists == SeqsUpTo(Catalog, MaxBeans)

\* the beans the sorting is run on: three in their window (5, 1 and 3 days left on the
\* first today), one whose window ends at the largest i32 and whose roast date is in
\* the future, three resting (two of them with the same days to go), two past their
\* window, two frozen, two in transit, all with something left
Stock(id, roast_date, start_day, end_day, is_frozen) ==
    CoffeeBean(id, id, Some(<<"1", "0">>), roast_date, start_day, end_day, is_frozen, NoneBool)
SortCatalog ==
    { Stock(<<"o", "5">>, Some(DateStr(2024, 2, 20)), NoneInt, Some(15), NoneBool),
      Stock(<<"o", "1">>, Some(DateStr(2024, 2, 23)), NoneInt, Some(8), NoneBool),
      Stock(<<"o", "3">>, Some(DateStr(2024, 2, 10)), NoneInt, Some(23), NoneBool),
      Stock(<<"w">>, Some(DateStr(2024, 3, 3)), Some(-5), Some(MaxI32), NoneBool),
      Stock(<<"r", "5">>, Some(DateStr(2024, 2, 28)), NoneInt, NoneInt, NoneBool),
      Stock(<<"r", "5", "b">>, Some(DateStr(2024, 2, 27)), Some(8), NoneInt, NoneBool),
      Stock(<<"r", "2">>, Some(DateStr(2024, 2, 29)), Some(3), NoneInt, NoneBool),
      Stock(<<"d", "6", "0">>, Some(DateStr(2024, 1, 1)), NoneInt, NoneInt, NoneBool),
      Stock(<<"d", "3", "1">>, Some(DateStr(2024, 1, 30)), NoneInt, NoneInt, NoneBool),
      Stock(<<"f", "1">>, Some(DateStr(2024, 1, 1)), NoneInt, NoneInt, Some(TRUE)),
      Stock(<<"f", "2">>, NoneStr, NoneInt, NoneInt, Some(TRUE)),
      CoffeeBean(<<"t", "1">>, <<"t">>, Some(<<"1">>), NoneStr, NoneInt, NoneInt,
                 NoneBool, Some(TRUE)),
      CoffeeBean(<<"t", "2">>, <<"t">>, Some(<<"1">>), Some(DateStr(2024, 1, 1)), NoneInt,
                 NoneInt, Some(TRUE), Some(TRUE)) }

SortLists == SeqsUpTo(SortCatalog, MaxBeans)

\* the beans of the calls that follow one another: one in its window, one frozen
CallCatalog ==
    { CoffeeBean(<<"q", "u", "i", "t">>, LongName, Some(<<"2", "5", "0", ".", "5">>),
                 Some(DateStr(2024, 2, 20)), NoneInt, Some(15), NoneBool, NoneBool),
      CoffeeBean(<<>>, <<>>, Some(<<".", "5">>),
                 NoneStr, NoneInt, NoneInt, Some(TRUE), Some(FALSE)) }

CallLists == SeqsUpTo(CallCatalog, MaxCallBeans)

NoBean == CoffeeBean(<<>>, <<>>, NoneStr, NoneStr, NoneInt, NoneInt, NoneBool, NoneBool)
NoInfo ==
    [bean |-> NoBean, days_since_roast |-> 0, start_day |-> 0, end_day |-> 0,
     freshness_state |-> "none", progress_percent |-> [num |-> 0, den |-> 1]]

(***************************************************************************)
(* Actions.                                                                *)
(***************************************************************************)
\* update_tray_menu (lib.rs 62-65) called with bs: update_tray_with_beans runs to one of
\* its ends
UpdateTrayMenu(bs) ==
    /\ Running
    /\ \E o \in Outcomes(Steps(bs, today, trayMenu # NoMenu), EarlyOverflow(bs, today),
                          trayMenu # NoMenu) :
         /\ beans' = bs
         /\ result' = o.result
         /\ doc' = o.doc
         /\ trayMenu' \in MenusAfter(trayMenu, o)
    /\ handler' = "update_tray_menu"
    /\ UNCHANGED <<today, event, bean, info, name, max_width, truncated>>
    /\ UNCHANGED shell

\* on_menu_event (lib.rs 465-491): an entry of the shown menu is clicked
OnMenuEvent ==
    /\ Running
    /\ trayMenu # NoMenu
    /\ \E id \in ClickableIds(trayMenu) : event' = Dispatch(id)
    /\ window' = IF event'.show THEN "shown" ELSE window
    /\ handler' = "on_menu_event"
    /\ UNCHANGED <<today, beans, trayMenu, result, doc, bean, info, name, max_width, truncated>>
    /\ UNCHANGED <<visible, trayVisible, macos, policy, call, close>>

\* set_tray_visible (lib.rs 68-96) called with arg; tray.set_visible returns Ok or Err
SetTrayVisible ==
    /\ Running
    /\ \E arg \in BOOLEAN, setOk \in BOOLEAN :
         LET found == trayMenu # NoMenu
         IN  /\ call' = [visible |-> arg, found |-> found,
                         result |-> SetVisibleResult(found, setOk)]
             /\ trayVisible' = WidgetAfter(trayVisible, found, setOk, arg)
             /\ visible' = FlagAfter(visible, found, setOk, StateManaged, LockOk, arg)
             /\ policy' = PolicyAfter(policy, macos, found, setOk, arg)
    /\ handler' = "set_tray_visible"
    /\ UNCHANGED <<today, beans, trayMenu, result, doc, event, bean, info, name, max_width,
                   truncated, window, macos, close>>

\* WindowEvent::CloseRequested on the main window (lib.rs 391-413)
CloseRequested ==
    /\ Running
    /\ close' = CloseOutcome(ReadFlag(visible, StateManaged, LockOk))
    /\ window' = WindowAfterClose(close')
    /\ policy' = IF close'.prevented /\ macos THEN "Accessory" ELSE policy
    /\ handler' = "close_requested"
    /\ UNCHANGED <<today, beans, trayMenu, result, doc, event, bean, info, name, max_width,
                   truncated, visible, trayVisible, macos, call>>

\* the handlers that only show the main window: "tauri://activated" (lib.rs 378-383), a
\* left click on the tray icon (lib.rs 492-500), RunEvent::Reopen (lib.rs 515-522)
ShowWindow ==
    /\ Running
    /\ \E h \in {"activated", "tray_click", "reopen"} :
         /\ h = "tray_click" => trayMenu # NoMenu /\ trayVisible
         /\ handler' = h
    /\ window' = "shown"
    /\ UNCHANGED <<today, beans, trayMenu, result, doc, event, bean, info, name, max_width,
                   truncated, visible, trayVisible, macos, policy, call, close>>

\* calculate_freshness applied to bean
CalculateFreshness ==
    /\ result = "none"
    /\ \E checks \in BOOLEAN :
         IF checks /\ FreshnessOverflows(bean, today)
         THEN result' = "panic" /\ info' = info
         ELSE result' = "ok" /\ info' = calculate_freshness(bean, today)
    /\ UNCHANGED <<today, beans, trayMenu, doc, event, bean, name, max_width, truncated>>
    /\ UNCHANGED <<shell, handler>>

\* truncate_name applied to name and max_width
TruncateName ==
    /\ result = "none"
    /\ result' = "ok"
    /\ truncated' = truncate_name(name, max_width)
    /\ UNCHANGED <<today, beans, trayMenu, doc, event, bean, info, name, max_width>>
    /\ UNCHANGED <<shell, handler>>

(***************************************************************************)
(* Specifications.                                                         *)
(***************************************************************************)
Idle ==
    /\ result = "none" /\ doc = <<>> /\ event = NoEvent
    /\ info = NoInfo /\ truncated = <<>>
    /\ call = NoCall /\ close = NoClose /\ handler = "none"

\* after setup (lib.rs 362-511): the flag at its default, the tray icon (when there is
\* one) and the main window shown, on macOS the Accessory policy of lib.rs 504-507
Started ==
    /\ visible = DefaultVisible /\ trayVisible = (trayMenu # NoMenu) /\ window = "shown"
    /\ policy = (IF macos THEN "Accessory" ELSE "Unset")

\* truncate_name on every name and width of the bounds
InitTruncate ==
    /\ Idle
    /\ today = ListToday /\ beans = <<>> /\ trayMenu = LoadingMenu /\ bean = NoBean
    /\ name \in Names /\ max_width \in 0..MaxWidthArg
    /\ macos = FALSE /\ Started
SpecTruncate == InitTruncate /\ [][TruncateName]_vars

\* calculate_freshness on every bean of FreshnessBeans, on every today
InitFreshness ==
    /\ Idle
    /\ today \in Todays /\ beans = <<>> /\ trayMenu = LoadingMenu
    /\ bean \in FreshnessBeans
    /\ name = <<>> /\ max_width = 0
    /\ macos = FALSE /\ Started
SpecFreshness == InitFreshness /\ [][CalculateFreshness]_vars

\* one update_tray_menu call on every list of beans of the catalog, then clicks
InitProject ==
    /\ Idle
    /\ today = ListToday /\ beans \in BeanLists /\ trayMenu = LoadingMenu
    /\ bean = NoBean /\ name = <<>> /\ max_width = 0
    /\ macos = FALSE /\ Started
FirstUpdate == result = "none" /\ UpdateTrayMenu(beans)
NextProject == FirstUpdate \/ OnMenuEvent
SpecProject == InitProject /\ [][NextProject]_vars

\* one update_tray_menu call on every list of beans of the sort catalog
InitSort ==
    /\ Idle
    /\ today = ListToday /\ beans \in SortLists /\ trayMenu = LoadingMenu
    /\ bean = NoBean /\ name = <<>> /\ max_width = 0
    /\ macos = FALSE /\ Started
SpecSort == InitSort /\ [][FirstUpdate]_vars

\* the running application: the frontend calls update_tray_menu again and again, the
\* user clicks entries of the menu
Init ==
    /\ Idle
    /\ today \in Todays /\ beans = <<>> /\ trayMenu \in {LoadingMenu, NoMenu}
    /\ bean = NoBean /\ name = <<>> /\ max_width = 0
    /\ macos = FALSE /\ Started
UpdateCall == \E bs \in CallLists : UpdateTrayMenu(bs)
Next == UpdateCall \/ OnMenuEvent
Spec == Init /\ [][Next]_vars

\* the running application seen from the tray icon and the main window: the frontend
\* calls set_tray_visible, the user closes and reopens the window and clicks the menu
InitTray ==
    /\ Idle
    /\ today = ListToday /\ beans = <<>> /\ trayMenu \in {LoadingMenu, NoMenu}
    /\ macos \in (IF trayMenu = NoMenu THEN {FALSE} ELSE BOOLEAN)
    /\ bean = NoBean /\ name = <<>> /\ max_width = 0
    /\ Started
NextTray == SetTrayVisible \/ CloseRequested \/ ShowWindow \/ OnMenuEvent
SpecTray == InitTray /\ [][NextTray]_vars

(***************************************************************************)
(* truncate_name: the width of the result                                  *)
(***************************************************************************)
\* C3: for every string and every width w, the string truncate_name returns has display
\* width exactly w by the width function of truncate_name (1 for an ASCII character, 2
\* for any other, the appended ellipsis included), truncated or not.
C3_WidthIsMaxWidth ==
    result = "ok" => DisplayWidth(truncated) = max_width

(***************************************************************************)
(* calculate_freshness                                                     *)
(***************************************************************************)
FlagSet(o) == o.some /\ o.val
HasValidRoastDate(b) == b.roast_date.some /\ ParseDate(b.roast_date.val).ok
HasMalformedRoastDate(b) == b.roast_date.some /\ ~ParseDate(b.roast_date.val).ok

\* C2: a roast date that is present but does not parse as YYYY-MM-DD behaves like an
\* absent one: days_since_roast is 0 and, with neither flag set, the state is Unknown.
C2_MalformedRoastDateIsUnknown ==
    (result = "ok" /\ HasMalformedRoastDate(bean))
        => /\ info.days_since_roast = 0
           /\ (~FlagSet(bean.is_in_transit) /\ ~FlagSet(bean.is_frozen))
                 => info.freshness_state = "Unknown"

\* the case of C4: no flag set and a valid roast date
RoastClockApplies ==
    /\ result = "ok"
    /\ ~FlagSet(bean.is_in_transit) /\ ~FlagSet(bean.is_frozen)
    /\ HasValidRoastDate(bean)

\* the boundaries of the window of info, start_day and end_day after defaulting
BoundariesClassified ==
    /\ info.days_since_roast = info.start_day => info.freshness_state = "Optimal"
    /\ info.days_since_roast = info.end_day => info.freshness_state = "Optimal"
    /\ info.days_since_roast - 1 = info.end_day => info.freshness_state = "Decline"

\* C4 as claimed: with no flag set and a valid roast date, for every start_day and
\* end_day, days_since_roast = start_day is Optimal, days_since_roast = end_day is
\* Optimal and days_since_roast = end_day + 1 is Decline.
C4_BoundariesOfAnyWindow ==
    RoastClockApplies => BoundariesClassified

\* C4 amended: the same for every window with start_day <= end_day.
C4_BoundariesOfOrderedWindow ==
    (RoastClockApplies /\ info.start_day <= info.end_day) => BoundariesClassified

C4_Witness ==
    /\ RoastClockApplies
    /\ bean.start_day.some /\ bean.end_day.some
    /\ info.start_day < info.end_day
    /\ info.days_since_roast = info.end_day
    /\ info.freshness_state = "Optimal"

\* C5: the state is InTransit whenever the in-transit flag is set, Frozen whenever the
\* frozen flag is set and the in-transit flag is not, and one of the roast-date states
\* only when neither flag is set.
C5_FirstMatchPrecedence ==
    result = "ok" =>
        /\ FlagSet(bean.is_in_transit) => info.freshness_state = "InTransit"
        /\ (FlagSet(bean.is_frozen) /\ ~FlagSet(bean.is_in_transit))
              => info.freshness_state = "Frozen"
        /\ (~FlagSet(bean.is_frozen) /\ ~FlagSet(bean.is_in_transit))
              => info.freshness_state \in {"Unknown", "Resting", "Optimal", "Decline"}

C5_Witness ==
    /\ result = "ok"
    /\ FlagSet(bean.is_in_transit) /\ FlagSet(bean.is_frozen)
    /\ HasValidRoastDate(bean)
    /\ info.days_since_roast > info.end_day
    /\ info.freshness_state = "InTransit"

(***************************************************************************)
(* update_tray_with_beans: the document of one call                        *)
(***************************************************************************)
GroupNames == {"Frozen", "Optimal", "Resting", "Decline", "InTransit"}

\* `remaining` parses to a decimal greater than 0
RemainingPositive(b) ==
    /\ b.remaining.some
    /\ ParseF64(b.remaining.val).ok
    /\ ParseF64(b.remaining.val).num > 0

\* the records of the input that are active and classified as `state`, in input order
Members(state) ==
    SelectSeq(beans, LAMBDA b :
        RemainingPositive(b) /\ calculate_freshness(b, today).freshness_state = state)

\* the positions of the group submenus of a document
SubmenuAt(d) == {k \in 1..Len(d) : d[k].kind = "submenu"}

\* the rows of the submenu of a group in a document, <<>> when it has none
RowsOf(d, state) ==
    IF \E k \in SubmenuAt(d) : d[k].label.fmt = state
    THEN d[CHOOSE k \in SubmenuAt(d) : d[k].label.fmt = state].items
    ELSE <<>>

RECURSIVE AllRows(_)
AllRows(d) ==
    IF d = <<>> THEN <<>>
    ELSE (IF Head(d).kind = "submenu" THEN Head(d).items ELSE <<>>) \o AllRows(Tail(d))

\* in how many group submenus of d the record b has a row
GroupsHolding(d, b) ==
    Cardinality({k \in SubmenuAt(d) :
        /\ d[k].label.fmt \in GroupNames
        /\ \E j \in 1..Len(d[k].items) : d[k].items[j].id = BeanPrefix \o b.id})

\* C1: a record whose `remaining` parses to a decimal greater than 0 has a row in exactly
\* one of the emitted group submenus; a record whose `remaining` is absent, unparsable
\* or not greater than 0 has a row in none.
C1_ActiveInExactlyOneGroup ==
    result = "ok" =>
        \A k \in 1..Len(beans) :
            GroupsHolding(doc, beans[k]) = IF RemainingPositive(beans[k]) THEN 1 ELSE 0

\* C7: with no active record in the input the document has no submenu and is exactly the
\* disabled count header (0), the disabled capacity header, a separator, one disabled
\* placeholder row, a separator, open_app and quit.
C7_NoActiveRecord ==
    (result = "ok" /\ \A k \in 1..Len(beans) : ~RemainingPositive(beans[k])) =>
        /\ Len(doc) = 7
        /\ SubmenuAt(doc) = {}
        /\ doc[1].kind = "item" /\ doc[1].id = StatCountId /\ ~doc[1].enabled
        /\ doc[1].label.num = 0
        /\ doc[2].kind = "item" /\ doc[2].id = StatCapacityId /\ ~doc[2].enabled
        /\ doc[3].kind = "separator"
        /\ doc[4].kind = "item" /\ doc[4].id = EmptyId /\ ~doc[4].enabled
        /\ doc[5].kind = "separator"
        /\ doc[6].kind = "item" /\ doc[6].id = OpenAppId /\ doc[6].enabled
        /\ doc[7].kind = "item" /\ doc[7].id = QuitId /\ doc[7].enabled

C7_Witness ==
    /\ result = "ok"
    /\ Len(beans) >= 2
    /\ \E k \in 1..Len(beans) : beans[k].remaining.some /\ ~ParseF64(beans[k].remaining.val).ok
    /\ \A k \in 1..Len(beans) : ~RemainingPositive(beans[k])
    /\ doc[4].id = EmptyId

GroupRank(state) ==
    CASE state = "Frozen" -> 1 [] state = "Optimal" -> 2 [] state = "Resting" -> 3
      [] state = "Decline" -> 4 [] state = "InTransit" -> 5 [] OTHER -> 0

\* C8: the group submenus lie between the header separator and the footer separator, in
\* the order Frozen, Optimal, Resting, Decline, InTransit; none is empty, and each label
\* carries the number of members of its group.
C8_GroupOrderAndCounts ==
    result = "ok" =>
        /\ Len(doc) >= 6
        /\ doc[3].kind = "separator" /\ doc[Len(doc) - 2].kind = "separator"
        /\ SubmenuAt(doc) \subseteq 4..(Len(doc) - 3)
        /\ \A k \in SubmenuAt(doc) :
              /\ doc[k].label.fmt \in GroupNames
              /\ doc[k].items # <<>>
              /\ doc[k].label.num = Len(doc[k].items)
              /\ doc[k].label.num = Len(Members(doc[k].label.fmt))
        /\ \A j, k \in SubmenuAt(doc) :
              j < k => GroupRank(doc[j].label.fmt) < GroupRank(doc[k].label.fmt)
        /\ \A state \in GroupNames :
              Members(state) = <<>> => ~\E k \in SubmenuAt(doc) : doc[k].label.fmt = state

C8_Witness ==
    /\ result = "ok"
    /\ Len(doc) = 9
    /\ doc[4].kind = "submenu" /\ doc[4].label.fmt = "Frozen"
    /\ doc[5].kind = "submenu" /\ doc[5].label.fmt = "Optimal"
    /\ doc[6].kind = "submenu" /\ doc[6].label.fmt = "InTransit"
    /\ beans[1].id = <<"1">> /\ beans[3].id = <<>>

\* C9: a bean row's identifier is "bean:" followed by the id of its record, unmodified;
\* the handler, given that identifier, emits navigate-to-bean with exactly the record's
\* id and does not treat it as open_app or quit; with unique record ids the identifiers
\* of the bean rows are pairwise distinct.
C9_BeanIdRoundTrip ==
    /\ result = "ok" =>
          /\ \A k \in SubmenuAt(doc) :
                /\ Len(doc[k].items) = Len(Members(doc[k].label.fmt))
                /\ {doc[k].items[j].id : j \in 1..Len(doc[k].items)}
                     = {BeanPrefix \o Members(doc[k].label.fmt)[j].id :
                          j \in 1..Len(Members(doc[k].label.fmt))}
          /\ (\A i, j \in 1..Len(beans) : i # j => beans[i].id # beans[j].id)
                => \A i, j \in 1..Len(AllRows(doc)) :
                      i # j => AllRows(doc)[i].id # AllRows(doc)[j].id
    /\ \A k \in 1..Len(beans) :
          (event.handled # "none" /\ event.id = BeanPrefix \o beans[k].id)
              => /\ event.handled = "bean"
                 /\ event.emitted = Some(beans[k].id)

C9_Witness ==
    /\ result = "ok"
    /\ \E k \in 1..Len(AllRows(trayMenu)) : AllRows(trayMenu)[k].id = event.id
    /\ \E k \in 1..Len(beans) : beans[k].id = BeanPrefix \o <<"1">>
    /\ event.handled = "bean"
    /\ event.emitted = Some(BeanPrefix \o <<"1">>)

(***************************************************************************)
(* update_tray_with_beans: the order of the rows                           *)
(***************************************************************************)
\* the record of the sort catalog a row stands for
RecordOfRow(row) == CHOOSE b \in SortCatalog : BeanPrefix \o b.id = row.id

\* the key of a group's order, of a record: the i32 the record's fields give
KeyOf(state, b) ==
    LET i == calculate_freshness(b, today)
    IN  CASE state = "Optimal" -> Sub32(i.end_day, i.days_since_roast)
          [] state = "Resting" -> Sub32(i.start_day, i.days_since_roast)
          [] state = "Decline" -> i.days_since_roast
          [] OTHER -> 0

IdsOf(records) == [k \in 1..Len(records) |-> records[k].id]

\* rows is the stable ascending sort of members by the key of state
StablySorted(state, rows, members) ==
    LET recs == [k \in 1..Len(rows) |-> RecordOfRow(rows[k])]
    IN  /\ Len(rows) = Len(members)
        /\ \A k \in 1..(Len(recs) - 1) : KeyOf(state, recs[k]) <= KeyOf(state, recs[k + 1])
        /\ \A m \in 1..Len(members) :
              IdsOf(SelectSeq(recs, LAMBDA b : KeyOf(state, b) = KeyOf(state, members[m])))
                = IdsOf(SelectSeq(members, LAMBDA b : KeyOf(state, b) = KeyOf(state, members[m])))

C10_AllOrNothing ==
    [][ /\ result' = "build_err" => trayMenu' = trayMenu
        /\ trayMenu' # trayMenu =>
              /\ result' \in {"ok", "set_menu_err"}
              /\ trayMenu' = BuildMenu(beans', today')
              /\ doc' = trayMenu' ]_vars

C10_Witness ==
    /\ result = "build_err"
    /\ trayMenu # LoadingMenu /\ trayMenu # NoMenu
    /\ SubmenuAt(doc) # {}
    /\ trayMenu # BuildMenu(beans, today)

(***************************************************************************)
(* set_tray_visible and close requests: the visibility flag                *)
(***************************************************************************)
\* C11: the flag starts true; a set_tray_visible call that found the tray and whose
\* set_visible succeeded stores its argument in the flag, every other call and every
\* other handler leaves the flag as it was; with a tray, the flag equals the visibility
\* of the tray icon after every step; a close request is prevented and the window hidden
\* exactly when the flag is true at that moment, and goes on when it is false.
C11_FlagTracksTrayAndDecidesClose ==
    /\ visible = TRUE
    /\ [][ /\ visible' = IF /\ handler' = "set_tray_visible"
                              /\ call'.found /\ call'.result = "ok"
                           THEN call'.visible
                           ELSE visible
           /\ trayMenu' # NoMenu => visible' = trayVisible'
           /\ handler' = "close_requested" =>
                 /\ close'.prevented <=> visible
                 /\ window' = "hidden" <=> visible
                 /\ window' = "closed" <=> ~visible ]_vars

\* the flag was made false, a later call with true failed and left it false, and the
\* close request that followed went on
C11_Witness ==
    /\ handler = "close_requested"
    /\ call = [visible |-> TRUE, found |-> TRUE, result |-> "err"]
    /\ ~visible /\ ~trayVisible
    /\ close.ran /\ ~close.prevented /\ window = "closed"

====
